---- MODULE Spec2Model ----
(***************************************************************************)
(* A model of pandoc_converter.py, the Nautilus context-menu extension     *)
(* that lists pandoc defaults files and runs one pandoc child process per  *)
(* menu activation.                                                        *)
(*                                                                         *)
(* Python str values are TLA+ strings; TLC evaluates Len, \o and SubSeq on *)
(* them, so slicing, searching and concatenation are computed character    *)
(* by character as the Python code computes them.                          *)
(***************************************************************************)
EXTENDS Integers, Sequences, FiniteSets, TLC

VARIABLES
    xdgIsDir,        \* ${XDG_DATA_HOME:-~/.local/share}/pandoc is a directory
    homeIsDir,       \* ~/.pandoc is a directory
    defaultsIsDir,   \* <data dir>/defaults is a directory
    docs,            \* file name -> content of the *.yaml files of <data dir>/defaults
    plugin,          \* "uninit", "ready" (__init__ returned) or "raised" (__init__ raised)
    defaults_files,  \* self.defaults_files: menu name -> path of the defaults file
    files,           \* the selection handed to the last get_file_items call
    menu,            \* the list the last get_file_items call returned
    host,            \* the host's UI thread: "idle" or "in_convert_file"
    jobs             \* the child processes started so far, in start order

vars == <<xdgIsDir, homeIsDir, defaultsIsDir, docs, plugin, defaults_files,
          files, menu, host, jobs>>

----------------------------------------------------------------------------
(* Bounds of the model.                                                    *)

MaxSel == 2      \* longest selection handed to get_file_items
MaxJobs == 2     \* child processes started in one behaviour
MaxMods == 1     \* +ext / -ext modifiers appended to a base format

----------------------------------------------------------------------------
(* Python str operations.                                                  *)

Char(s, i) == SubSeq(s, i, i)

\* s[i:] for a 0-based i, i.e. from the 1-based position i + 1 on
SliceFrom(s, i) == SubSeq(s, i + 1, Len(s))

\* s[:i] for a 0-based i
SliceTo(s, i) == SubSeq(s, 1, i)

\* 1-based position of the first character of s that is in C, 0 when none
FirstOf(s, C) ==
    LET I == {i \in 1..Len(s) : Char(s, i) \in C}
    IN  IF I = {} THEN 0 ELSE CHOOSE i \in I : \A j \in I : i <= j

\* 1-based position of the last character of s that is in C, 0 when none
LastOf(s, C) ==
    LET I == {i \in 1..Len(s) : Char(s, i) \in C}
    IN  IF I = {} THEN 0 ELSE CHOOSE i \in I : \A j \in I : j <= i

Contains(s, C) == FirstOf(s, C) # 0

StartsWith(s, p) == Len(s) >= Len(p) /\ SubSeq(s, 1, Len(p)) = p

EndsWith(s, p) == Len(s) >= Len(p) /\ SubSeq(s, Len(s) - Len(p) + 1, Len(s)) = p

UpperChars == "ABCDEFGHIJKLMNOPQRSTUVWXYZ"
LowerChars == "abcdefghijklmnopqrstuvwxyz"

LowerChar(c) ==
    LET i == FirstOf(UpperChars, {c})
    IN  IF i = 0 THEN c ELSE Char(LowerChars, i)

\* str.lower()
RECURSIVE LowerFrom(_, _)
LowerFrom(s, i) ==
    IF i > Len(s) THEN ""
    ELSE LowerChar(Char(s, i)) \o LowerFrom(s, i + 1)

Lower(s) == LowerFrom(s, 1)

\* urllib.parse.unquote on the escapes the sample URIs use: %2E and %2e are
\* ".", %20 is " "; any other "%" stays as it is, as in unquote.
PercentCodes ==
    {<<"%2E", ".">>, <<"%2e", ".">>, <<"%20", " ">>}

RECURSIVE unquoteFrom(_, _)
unquoteFrom(s, i) ==
    IF i > Len(s) THEN ""
    ELSE IF i + 2 <= Len(s) /\ \E pc \in PercentCodes : SubSeq(s, i, i + 2) = pc[1]
         THEN (CHOOSE pc \in PercentCodes : SubSeq(s, i, i + 2) = pc[1])[2]
              \o unquoteFrom(s, i + 3)
         ELSE Char(s, i) \o unquoteFrom(s, i + 1)

unquote(s) == unquoteFrom(s, 1)

\* re.split(r"[+-]", s)[0]: the part of s before its first "+" or "-"
re_split_first(s) ==
    LET i == FirstOf(s, {"+", "-"})
    IN  IF i = 0 THEN s ELSE SliceTo(s, i - 1)

----------------------------------------------------------------------------
(* pathlib.PurePosixPath on paths already in normal form (absolute or      *)
(* relative, no empty, "." or trailing components).                        *)

\* Path.name: the last component
PathName(p) == SliceFrom(p, LastOf(p, {"/"}))

\* str(Path.parent) for a path with a directory part
PathParent(p) ==
    LET i == LastOf(p, {"/"})
    IN  IF i = 0 THEN "." ELSE IF i = 1 THEN "/" ELSE SliceTo(p, i - 1)

\* Path.suffix: name[i:] where i = name.rfind("."), when 0 < i < len(name) - 1
PathSuffix(p) ==
    LET name == PathName(p)
        i == LastOf(name, {"."}) - 1
    IN  IF 0 < i /\ i < Len(name) - 1 THEN SliceFrom(name, i) ELSE ""

\* Path.stem
PathStem(p) ==
    LET name == PathName(p)
        i == LastOf(name, {"."}) - 1
    IN  IF 0 < i /\ i < Len(name) - 1 THEN SliceTo(name, i) ELSE name

\* Path.with_suffix raises ValueError for these suffixes and names
WithSuffixRaises(p, suffix) ==
    \/ Contains(suffix, {"/"})
    \/ (suffix # "" /\ ~StartsWith(suffix, "."))
    \/ suffix = "."
    \/ PathName(p) = ""

\* Path.with_suffix(suffix) when it does not raise
with_suffix(p, suffix) ==
    LET name == PathName(p)
        old == PathSuffix(p)
        base == IF old = "" THEN name ELSE SliceTo(name, Len(name) - Len(old))
    IN  SliceTo(p, Len(p) - Len(name)) \o base \o suffix

----------------------------------------------------------------------------
(* Python values read from a YAML document, and the documents.             *)

None == [t |-> "none", s |-> ""]
PyStr(s) == [t |-> "str", s |-> s]
Num(s) == [t |-> "int", s |-> s]

\* bool(v): None and "" are false; the sample integers are non-zero
Truthy(v) == (v.t = "str" /\ v.s # "") \/ v.t = "int"

\* a or b
PyOr(a, b) == IF Truthy(a) THEN a ELSE b

\* dict.get(key): None when the key is missing
dict_get(d, key) == IF key \in DOMAIN d THEN d[key] ELSE None

\* What is at a path of the defaults directory. kind "mapping" is a YAML
\* key-value document whose to/write entries are cfg; "empty" is an empty
\* document (safe_load gives None); "scalar" parses to a str or a list;
\* "malformed" makes safe_load raise YAMLError; "unreadable" makes the read
\* raise PermissionError; "absent" means there is no such file.
Doc(kind, cfg) == [kind |-> kind, cfg |-> cfg]
NoCfg == [k \in {} |-> None]
Absent == Doc("absent", NoCfg)
Unreadable == Doc("unreadable", NoCfg)
Malformed == Doc("malformed", NoCfg)
Empty == Doc("empty", NoCfg)
Scalar == Doc("scalar", NoCfg)
Mapping(cfg) == Doc("mapping", cfg)
To(v) == Mapping([k \in {"to"} |-> v])
Write(v) == Mapping([k \in {"write"} |-> v])
ToWrite(v, w) == Mapping([k \in {"to", "write"} |-> IF k = "to" THEN v ELSE w])

\* The exceptions of the tuple (yaml.YAMLError, IOError); IOError is OSError,
\* the base of FileNotFoundError and PermissionError.
CaughtInDiscovery == {"YAMLError", "FileNotFoundError", "PermissionError"}

\* LoadOutputFormat without the fallback to the write field
LoadOutputFormatToOnly(doc) ==
    CASE doc.kind = "absent" -> [exc |-> "FileNotFoundError", fmt |-> None]
      [] doc.kind = "unreadable" -> [exc |-> "PermissionError", fmt |-> None]
      [] doc.kind = "malformed" -> [exc |-> "YAMLError", fmt |-> None]
      [] doc.kind \in {"empty", "scalar"} -> [exc |-> "AttributeError", fmt |-> None]
      [] OTHER -> [exc |-> "", fmt |-> dict_get(doc.cfg, "to")]

\* config = yaml.safe_load(<the file's text>);
\* output_format = config.get("to") or config.get("write")
\* exc is the exception raised ("" when none), fmt the value of output_format.
LoadOutputFormat(doc) ==
    CASE doc.kind = "absent" -> [exc |-> "FileNotFoundError", fmt |-> None]
      [] doc.kind = "unreadable" -> [exc |-> "PermissionError", fmt |-> None]
      [] doc.kind = "malformed" -> [exc |-> "YAMLError", fmt |-> None]
      [] doc.kind \in {"empty", "scalar"} -> [exc |-> "AttributeError", fmt |-> None]
      [] OTHER -> [exc |-> "",
                   fmt |-> PyOr(dict_get(doc.cfg, "to"), dict_get(doc.cfg, "write"))]

----------------------------------------------------------------------------
(* Profile discovery.                                                      *)

HomeDir == "/h"
XdgPandocDir == HomeDir \o "/.local/share" \o "/pandoc"
HomePandocDir == HomeDir \o "/.pandoc"
NoDir == ""

_get_pandoc_data_dir ==
    IF xdgIsDir THEN XdgPandocDir
    ELSE IF homeIsDir THEN HomePandocDir
    ELSE NoDir

DefaultsDir == _get_pandoc_data_dir \o "/defaults"

\* defaults_dir.glob("*.yaml"): the paths of the files there named *.yaml
GlobYaml(fs) ==
    {DefaultsDir \o "/" \o f :
        f \in {g \in DOMAIN fs : fs[g].kind # "absent" /\ EndsWith(g, ".yaml")}}

\* the content of the file at a path
ReadFile(fs, path) ==
    IF defaultsIsDir /\ \E f \in DOMAIN fs : DefaultsDir \o "/" \o f = path
    THEN fs[CHOOSE f \in DOMAIN fs : DefaultsDir \o "/" \o f = path]
    ELSE Absent

\* d[key] = value
DictSet(d, key, value) ==
    [k \in DOMAIN d \cup {key} |-> IF k = key THEN value ELSE d[k]]

EmptyDict == [k \in {} |-> ""]

\* One pass of the loop body for filepath: the mapping after it, or the
\* exception that leaves the loop.
DiscoverOne(fs, filepath, acc) ==
    LET r == LoadOutputFormat(ReadFile(fs, filepath))
    IN  IF r.exc \in CaughtInDiscovery THEN [exc |-> "", map |-> acc]
        ELSE IF r.exc # "" THEN [exc |-> r.exc, map |-> acc]
        ELSE IF Truthy(r.fmt)
             THEN [exc |-> "", map |-> DictSet(acc, PathStem(filepath), filepath)]
             ELSE [exc |-> "", map |-> acc]

\* for filepath in defaults_dir.glob("*.yaml"): ...   (in some listing order)
RECURSIVE DiscoverLoop(_, _, _)
DiscoverLoop(fs, todo, acc) ==
    IF todo = {} THEN [exc |-> "", map |-> acc]
    ELSE LET filepath == CHOOSE p \in todo : TRUE
             r == DiscoverOne(fs, filepath, acc)
         IN  IF r.exc # "" THEN r
             ELSE DiscoverLoop(fs, todo \ {filepath}, r.map)

_find_defaults_files(fs) ==
    IF _get_pandoc_data_dir = NoDir THEN [exc |-> "", map |-> EmptyDict]
    ELSE IF ~defaultsIsDir THEN [exc |-> "", map |-> EmptyDict]
    ELSE DiscoverLoop(fs, GlobYaml(fs), EmptyDict)

\* __init__: self.defaults_files = self._find_defaults_files()
PluginInit ==
    /\ plugin = "uninit"
    /\ LET r == _find_defaults_files(docs)
       IN  /\ plugin' = IF r.exc = "" THEN "ready" ELSE "raised"
           /\ defaults_files' = IF r.exc = "" THEN r.map ELSE EmptyDict
    /\ UNCHANGED <<xdgIsDir, homeIsDir, defaultsIsDir, docs, files, menu, host, jobs>>

----------------------------------------------------------------------------
(* The menu.                                                               *)

\* One submenu item and the arguments its activate callback is bound to:
\* lambda w, path=file_path, df=defaults_path: self._convert_file(path, df)
SubItem(menu_name, file_path, defaults_path) ==
    [name |-> "PandocConverter::Convert::" \o menu_name, label |-> menu_name,
     path |-> file_path, df |-> defaults_path]

ConvertItem(file_path, dfs) ==
    [name |-> "PandocConverter::Convert",
     submenu |-> {SubItem(m, file_path, dfs[m]) : m \in DOMAIN dfs}]

MarkdownSuffixes == {".md", ".markdown"}

\* file_path = Path(unquote(file_info.get_uri()[7:]))
FilePathOf(uri) == unquote(SliceFrom(uri, 7))

\* file_path.suffix.lower() not in [".md", ".markdown"]
NotMarkdown(file_path) == Lower(PathSuffix(file_path)) \notin MarkdownSuffixes

\* get_file_items with "if not files" in place of "if len(files) != 1"
get_file_items_nonempty(sel, dfs) ==
    IF Len(sel) = 0 THEN <<>>
    ELSE LET file_path == FilePathOf(sel[1])
         IN  IF NotMarkdown(file_path) THEN <<>>
             ELSE IF DOMAIN dfs # {} THEN <<ConvertItem(file_path, dfs)>>
             ELSE <<>>

\* get_file_items(files): the list it returns
get_file_items(sel, dfs) ==
    IF Len(sel) # 1 THEN <<>>
    ELSE LET file_path == FilePathOf(sel[1])
         IN  IF NotMarkdown(file_path) THEN <<>>
             ELSE IF DOMAIN dfs # {} THEN <<ConvertItem(file_path, dfs)>>
             ELSE <<>>

\* The host asks for the menu of a selection.
GetFileItems(sel) ==
    /\ plugin = "ready"
    /\ host = "idle"
    /\ files' = sel
    /\ menu' = get_file_items(sel, defaults_files)
    /\ UNCHANGED <<xdgIsDir, homeIsDir, defaultsIsDir, docs, plugin,
                   defaults_files, host, jobs>>

----------------------------------------------------------------------------
(* The child process of one conversion.                                    *)

Unbound == ""

\* Process(target=self._run_conversion, args=(str(input_path), str(defaults_file)))
NewJob(input_path, defaults_file) ==
    [input_path |-> input_path, defaults_file |-> defaults_file, pc |-> "start",
     output_format |-> None, base_format |-> Unbound, extension |-> Unbound,
     input_path_obj |-> Unbound, output_path |-> Unbound, exc |-> "",
     notes |-> <<>>]

FORMAT_EXTENSIONS ==
    ("docx" :> ".docx") @@ ("epub" :> ".epub") @@ ("html" :> ".html")
    @@ ("markdown" :> ".md") @@ ("odt" :> ".odt") @@ ("pdf" :> ".pdf")
    @@ ("pptx" :> ".pptx") @@ ("tei" :> ".xml") @@ ("latex" :> ".tex")
    @@ ("typst" :> ".typ") @@ ("revealjs" :> ".html")

\* BaseFormat splitting on "+" only
BaseFormatPlusOnly(output_format) ==
    LET i == FirstOf(output_format, {"+"})
    IN  IF i = 0 THEN output_format ELSE SliceTo(output_format, i - 1)

\* base_format = re.split(r"[+-]", output_format)[0]
BaseFormat(output_format) == re_split_first(output_format)

\* extension = FORMAT_EXTENSIONS.get(base_format, f".{base_format}")
ResolveExtension(base_format) ==
    IF base_format \in DOMAIN FORMAT_EXTENSIONS
    THEN FORMAT_EXTENSIONS[base_format]
    ELSE "." \o base_format

\* OutputPath appending the extension to the whole name
OutputPathAppended(input_path_obj, extension) == input_path_obj \o extension

\* output_path = input_path_obj.with_suffix(extension)
OutputPath(input_path_obj, extension) == with_suffix(input_path_obj, extension)

\* Lines 75-88 of _run_conversion on the defaults file's content doc: the
\* job's locals after them, with pc "except" when a line raised, "done" after
\* the return of line 80, "pandoc" when the converter is to be run.
Prepare(job, doc) ==
    LET r == LoadOutputFormat(doc)
    IN  IF r.exc # "" THEN [job EXCEPT !.pc = "except", !.exc = r.exc]
        ELSE IF ~Truthy(r.fmt)
        THEN [job EXCEPT !.pc = "done", !.output_format = r.fmt]
        ELSE IF r.fmt.t # "str"
        THEN [job EXCEPT !.pc = "except", !.exc = "TypeError",
                         !.output_format = r.fmt]
        ELSE LET base_format == BaseFormat(r.fmt.s)
                 extension == ResolveExtension(base_format)
                 bound == [job EXCEPT !.output_format = r.fmt,
                                      !.base_format = base_format,
                                      !.extension = extension,
                                      !.input_path_obj = job.input_path]
             IN  IF WithSuffixRaises(job.input_path, extension)
                 THEN [bound EXCEPT !.pc = "except", !.exc = "ValueError"]
                 ELSE [bound EXCEPT !.pc = "pandoc",
                           !.output_path = OutputPath(job.input_path, extension)]

SuccessNote(job) ==
    [title |-> "Pandoc Conversion Complete",
     source |-> PathName(job.input_path_obj), dest |-> PathName(job.output_path),
     error |-> ""]

ErrorNote(job) ==
    [title |-> "Pandoc Conversion Error",
     source |-> PathName(job.input_path_obj), dest |-> "", error |-> job.exc]

\* The except clause: its f-string reads input_path_obj, which is a local
\* bound only at line 87; reading it unbound raises UnboundLocalError out of
\* _run_conversion.
HandleException(job) ==
    IF job.input_path_obj = Unbound
    THEN [job EXCEPT !.pc = "raised", !.exc = "UnboundLocalError"]
    ELSE [job EXCEPT !.pc = "done", !.notes = Append(@, ErrorNote(job))]

\* a child whose _run_conversion has returned or raised
Exited == {"done", "raised"}

JobVars == <<xdgIsDir, homeIsDir, defaultsIsDir, docs, plugin, defaults_files,
             files, menu, host>>

\* the child reads its defaults file and computes the output path
JobPrepare(j) ==
    /\ jobs[j].pc = "start"
    /\ jobs' = [jobs EXCEPT ![j] = Prepare(@, ReadFile(docs, @.defaults_file))]
    /\ UNCHANGED JobVars

\* subprocess.run(["pandoc", ...]) starts pandoc, or raises when it cannot
JobLaunch(j, launched) ==
    /\ jobs[j].pc = "pandoc"
    /\ jobs' = [jobs EXCEPT ![j] =
                   IF launched THEN [@ EXCEPT !.pc = "converting"]
                   ELSE [@ EXCEPT !.pc = "except", !.exc = "FileNotFoundError"]]
    /\ UNCHANGED JobVars

\* pandoc exits; check=True raises CalledProcessError on a non-zero status
JobPandocExit(j, status) ==
    /\ jobs[j].pc = "converting"
    /\ jobs' = [jobs EXCEPT ![j] =
                   IF status = 0 THEN [@ EXCEPT !.pc = "notify"]
                   ELSE [@ EXCEPT !.pc = "except", !.exc = "CalledProcessError"]]
    /\ UNCHANGED JobVars

\* notify-send "Pandoc Conversion Complete"; notify-send is taken to be
\* installed, and its exit status is ignored (no check=True)
JobNotifySuccess(j) ==
    /\ jobs[j].pc = "notify"
    /\ jobs' = [jobs EXCEPT ![j] =
                   [@ EXCEPT !.pc = "done", !.notes = Append(@, SuccessNote(jobs[j]))]]
    /\ UNCHANGED JobVars

\* except Exception as e: notify-send "Pandoc Conversion Error"
JobExcept(j) ==
    /\ jobs[j].pc = "except"
    /\ jobs' = [jobs EXCEPT ![j] = HandleException(@)]
    /\ UNCHANGED JobVars

\* the exit statuses of pandoc the model distinguishes: 0 and a non-zero one
ExitStatuses == {0, 1}

----------------------------------------------------------------------------
(* The host's side of a conversion.                                        *)

\* StartReturns when _convert_file joins the child it started
StartReturnsAfterJoin(job) == job.pc \in Exited

\* Process(...).start() returns once the child exists; _convert_file calls
\* neither join() nor anything else that waits for the child.
StartReturns(job) == TRUE

\* The user activates a submenu item: _convert_file starts one child.
Activate(item) ==
    /\ plugin = "ready"
    /\ host = "idle"
    /\ Len(jobs) < MaxJobs
    /\ jobs' = Append(jobs, NewJob(item.path, item.df))
    /\ host' = "in_convert_file"
    /\ UNCHANGED <<xdgIsDir, homeIsDir, defaultsIsDir, docs, plugin,
                   defaults_files, files, menu>>

\* _convert_file returns to the host
ConvertFileReturn ==
    /\ host = "in_convert_file"
    /\ StartReturns(jobs[Len(jobs)])
    /\ host' = "idle"
    /\ UNCHANGED <<xdgIsDir, homeIsDir, defaultsIsDir, docs, plugin,
                   defaults_files, files, menu, jobs>>

\* Somebody rewrites, removes or creates a file of the defaults directory
\* after the plugin was loaded.
EditDoc(f, doc) ==
    /\ plugin = "ready"
    /\ defaultsIsDir
    /\ _get_pandoc_data_dir # NoDir
    /\ docs[f] # doc
    /\ docs' = [docs EXCEPT ![f] = doc]
    /\ UNCHANGED <<xdgIsDir, homeIsDir, defaultsIsDir, plugin, defaults_files,
                   files, menu, host, jobs>>

----------------------------------------------------------------------------
(* Inputs and specifications.                                              *)

\* every sequence over S of length at most n
SeqsUpTo(S, n) == UNION {[1..k -> S] : k \in 0..n}

\* the state after the module is imported and before __init__ runs, for the
\* given choices of the directories and of the defaults directory's files
InitWith(Dirs, DocChoices) ==
    /\ \E d \in Dirs : xdgIsDir = d[1] /\ homeIsDir = d[2] /\ defaultsIsDir = d[3]
    /\ docs \in DocChoices
    /\ (~defaultsIsDir \/ _get_pandoc_data_dir = NoDir)
           => \A f \in DOMAIN docs : docs[f] = Absent
    /\ plugin = "uninit"
    /\ defaults_files = EmptyDict
    /\ files = <<>>
    /\ menu = <<>>
    /\ host = "idle"
    /\ jobs = <<>>

MenuItemsShown == IF menu = <<>> THEN {} ELSE menu[1].submenu

\* a file of the defaults directory with a dotted stem, and one without
FileNames == {"web.yaml", "text.v2.yaml"}

\* --- Spec: the whole extension, on a small file system ---

Contents ==
    {Absent, Empty, To(PyStr("html")), Write(PyStr("markdown+smart")),
     To(Num("5"))}

Dirs == {<<TRUE, TRUE, TRUE>>, <<FALSE, TRUE, FALSE>>, <<FALSE, FALSE, FALSE>>}

Uris == {"file:///d/notes.md", "file:///d/notes.txt"}

\* what a file of the defaults directory is replaced by after discovery:
\* nothing (it is removed), or a document without to and write
Edits == {Absent, Mapping(NoCfg)}

Init == InitWith(Dirs, [FileNames -> Contents])

Next ==
    \/ PluginInit
    \/ \E sel \in SeqsUpTo(Uris, MaxSel) : GetFileItems(sel)
    \/ \E item \in MenuItemsShown : Activate(item)
    \/ ConvertFileReturn
    \/ \E j \in 1..Len(jobs) : JobPrepare(j)
    \/ \E j \in 1..Len(jobs) : \E launched \in BOOLEAN : JobLaunch(j, launched)
    \/ \E j \in 1..Len(jobs) : \E status \in ExitStatuses : JobPandocExit(j, status)
    \/ \E j \in 1..Len(jobs) : JobNotifySuccess(j)
    \/ \E j \in 1..Len(jobs) : JobExcept(j)
    \/ \E f \in DOMAIN docs : \E doc \in Edits : EditDoc(f, doc)

Spec == Init /\ [][Next]_vars

\* --- SpecMenu: the menu filter, over many selections ---

MenuUris ==
    {"file:///d/notes.md", "file:///d/README.MD", "file:///d/a.b.markdown",
     "file:///d/notes.txt", "file:///d/.md", "file:///d/a%2Emd"}

InitMenu == InitWith(Dirs, [FileNames -> {Absent, To(PyStr("html"))}])

NextMenu ==
    \/ PluginInit
    \/ \E sel \in SeqsUpTo(MenuUris, MaxSel) : GetFileItems(sel)

SpecMenu == InitMenu /\ [][NextMenu]_vars

\* --- SpecDiscovery: profile discovery, over many defaults directories ---

DiscoveryFileNames == FileNames \cup {"old.yml"}

DiscoveryContents ==
    {Absent, Unreadable, Malformed, Empty, Scalar, Mapping(NoCfg),
     To(PyStr("html")), Write(PyStr("latex+raw_tex")),
     ToWrite(PyStr(""), PyStr("docx")), ToWrite(None, None), To(PyStr("")),
     To(Num("5"))}

DiscoveryDirs == {<<x, h, d>> : x \in BOOLEAN, h \in BOOLEAN, d \in BOOLEAN}

InitDiscovery ==
    InitWith(DiscoveryDirs,
             {d \in [DiscoveryFileNames -> DiscoveryContents] :
                 d["old.yml"] \in {Absent, To(PyStr("html"))}})

NextDiscovery ==
    \/ PluginInit
    \/ \E sel \in SeqsUpTo(Uris, MaxSel) : GetFileItems(sel)

SpecDiscovery == InitDiscovery /\ [][NextDiscovery]_vars

\* --- SpecHost: the host and its children, with two valid profiles ---

HostDocs ==
    [f \in FileNames |->
        IF f = "web.yaml" THEN To(PyStr("html")) ELSE Write(PyStr("markdown+smart"))]

InitHost == InitWith({<<TRUE, TRUE, TRUE>>}, {HostDocs})

\* the steps of the activate callback
ActivationSteps ==
    \/ \E item \in MenuItemsShown : Activate(item)
    \/ ConvertFileReturn

NextHost ==
    \/ PluginInit
    \/ \E sel \in SeqsUpTo(Uris, MaxSel) : GetFileItems(sel)
    \/ ActivationSteps
    \/ \E j \in 1..Len(jobs) : JobPrepare(j)
    \/ \E j \in 1..Len(jobs) : \E launched \in BOOLEAN : JobLaunch(j, launched)
    \/ \E j \in 1..Len(jobs) : \E status \in ExitStatuses : JobPandocExit(j, status)
    \/ \E j \in 1..Len(jobs) : JobNotifySuccess(j)
    \/ \E j \in 1..Len(jobs) : JobExcept(j)

SpecHost == InitHost /\ [][NextHost]_vars

\* --- SpecJobs: two children just started, over many output formats ---

Bases == {"markdown", "latex", "revealjs", "rst", "x.lua", ""}

Modifiers == {"+raw_tex", "-smart"}

RECURSIVE Concat(_)
Concat(ss) == IF ss = <<>> THEN "" ELSE Head(ss) \o Concat(Tail(ss))

Formats ==
    {b \o Concat(ms) : b \in Bases, ms \in SeqsUpTo(Modifiers, MaxMods)} \ {""}

\* the sample files that pass the filter of get_file_items
Sources == {FilePathOf(u) : u \in {v \in MenuUris : ~NotMarkdown(FilePathOf(v))}}

JobDocs(f, g) ==
    [n \in FileNames |-> IF n = "web.yaml" THEN To(PyStr(f)) ELSE Write(PyStr(g))]

\* the state after the plugin was loaded with two profiles and the user
\* activated both of them on one file
InitJobs ==
    /\ xdgIsDir = TRUE /\ homeIsDir = TRUE /\ defaultsIsDir = TRUE
    /\ \E f \in Formats, g \in Formats : docs = JobDocs(f, g)
    /\ plugin = "ready"
    /\ defaults_files = _find_defaults_files(docs).map
    /\ \E src \in Sources :
          /\ files = <<"file://" \o src>>
          /\ menu = get_file_items(files, defaults_files)
          /\ jobs = <<NewJob(src, defaults_files["web"]),
                      NewJob(src, defaults_files["text.v2"])>>
    /\ host = "idle"

NextJobs ==
    \/ \E j \in 1..Len(jobs) : JobPrepare(j)
    \/ \E j \in 1..Len(jobs) : JobExcept(j)

SpecJobs == InitJobs /\ [][NextJobs]_vars

----------------------------------------------------------------------------
(* The claims.                                                             *)

\* the name of the single selected file
SelectedName == PathName(FilePathOf(files[1]))

\* C1 (as amended): get_file_items returns a menu item only when the
\* selection is exactly one file whose name ends, letter case disregarded,
\* in .md or .markdown; every other selection gets the empty list.
C1_MenuOnlyForOneMarkdownFile ==
    menu # <<>> =>
        /\ Len(files) = 1
        /\ \/ EndsWith(Lower(SelectedName), ".md")
           \/ EndsWith(Lower(SelectedName), ".markdown")

\* C1 as stated: the extension is .md or .markdown, as spelled.
C1_AsStated ==
    menu # <<>> =>
        /\ Len(files) = 1
        /\ \/ EndsWith(SelectedName, ".md")
           \/ EndsWith(SelectedName, ".markdown")

\* a menu item was returned for a single file named *.MD
C1_Witness ==
    /\ Len(files) = 1
    /\ menu # <<>>
    /\ EndsWith(SelectedName, ".MD")

\* the *.yaml files of the defaults directory
YamlDocs == {f \in DOMAIN docs : docs[f] # Absent /\ EndsWith(f, ".yaml")}

YamlStem(f) == SliceTo(f, Len(f) - Len(".yaml"))

HoldsValue(cfg, key) == key \in DOMAIN cfg /\ cfg[key] \notin {None, PyStr("")}

DeclaresFormat(doc) ==
    /\ doc.kind = "mapping"
    /\ \/ HoldsValue(doc.cfg, "to")
       \/ (~HoldsValue(doc.cfg, "to") /\ HoldsValue(doc.cfg, "write"))

\* C2: the mapping discovery returns has an entry keyed by a document's stem
\* and pointing to the document exactly for the *.yaml documents that parse
\* to a mapping holding a value in `to` or, failing that, in `write`; it has
\* no other entry.
C2_DiscoveryListsDeclaringDocuments ==
    plugin = "ready" =>
        /\ \A f \in YamlDocs :
              (/\ YamlStem(f) \in DOMAIN defaults_files
               /\ defaults_files[YamlStem(f)] = DefaultsDir \o "/" \o f)
              <=> DeclaresFormat(docs[f])
        /\ \A m \in DOMAIN defaults_files : \E f \in YamlDocs : m = YamlStem(f)

\* discovery returned with a write-only profile listed and a document
\* without to and write left out
C2_Witness ==
    /\ plugin = "ready"
    /\ docs["web.yaml"] = Mapping(NoCfg)
    /\ docs["text.v2.yaml"] = Write(PyStr("latex+raw_tex"))
    /\ DOMAIN defaults_files = {"text.v2"}

\* C3: no exception escapes profile discovery, whatever the documents hold,
\* so __init__ always completes.
C3_NoExceptionEscapesDiscovery == plugin # "raised"

Succeeded(job) ==
    job.notes # <<>> /\ job.notes[1].title = "Pandoc Conversion Complete"

Failed(job) ==
    job.notes # <<>> /\ job.notes[1].title = "Pandoc Conversion Error"

\* C4: a child that ends without a success has caught its failure, has sent
\* one error notification naming the source file, and has not raised.
C4_EveryFailureNotified ==
    \A j \in 1..Len(jobs) :
        (jobs[j].pc \in Exited /\ ~Succeeded(jobs[j])) =>
            /\ jobs[j].pc = "done"
            /\ Failed(jobs[j])
            /\ jobs[j].notes[1].source = PathName(jobs[j].input_path)

\* C5: a job emits at most one notification, and once its child has ended it
\* is in exactly one of Succeeded and Failed.
C5_ExactlyOneTerminalState ==
    \A j \in 1..Len(jobs) :
        /\ Len(jobs[j].notes) <= 1
        /\ jobs[j].pc \in Exited => Len(jobs[j].notes) = 1

\* a step that starts exactly one child, behind the earlier ones, and
\* leaves the host in _convert_file, or starts none and leaves the host idle
OneChildPerActivation ==
    \/ /\ host = "idle" /\ host' = "in_convert_file"
       /\ Len(jobs') = Len(jobs) + 1
       /\ SubSeq(jobs', 1, Len(jobs)) = jobs
       /\ jobs'[Len(jobs')].pc = "start"
    \/ /\ host = "in_convert_file" /\ host' = "idle"
       /\ jobs' = jobs

\* C6: the host never waits for a child: _convert_file can always return,
\* an idle host can always be asked for a menu and (below the model's bound
\* on children) activate any item shown, whatever the earlier children do;
\* and an activation starts exactly one child and then returns.
C6_HostNeverWaits ==
    /\ host = "in_convert_file" => ENABLED ConvertFileReturn
    /\ (host = "idle" /\ plugin = "ready") =>
          /\ ENABLED GetFileItems(<<>>)
          /\ Len(jobs) < MaxJobs =>
                \A item \in MenuItemsShown : ENABLED Activate(item)
    /\ ~ENABLED (ActivationSteps /\ ~OneChildPerActivation)

\* the host is idle again after a second activation while the first child's
\* converter is still running
C6_Witness ==
    /\ host = "idle"
    /\ Len(jobs) = 2
    /\ jobs[1].pc = "converting"
    /\ jobs[2].pc = "start"

Computed(job) == job.extension # Unbound

\* p is the part of f before its first "+" or "-"
IsBaseOf(p, f) ==
    /\ ~Contains(p, {"+", "-"})
    /\ StartsWith(f, p)
    /\ Len(f) = Len(p) \/ Char(f, Len(p) + 1) \in {"+", "-"}

\* g is f with +ext / -ext modifiers appended
AppendsModifiers(g, f) ==
    /\ StartsWith(g, f)
    /\ Len(g) > Len(f)
    /\ Char(g, Len(f) + 1) \in {"+", "-"}

\* C7: the resolved extension is the table entry of the part of the format
\* before its first "+" or "-", or "." and that part when the table has
\* none; appending modifiers to a format leaves it unchanged, and the base
\* format of a base format is that base format.
C7_ExtensionDependsOnBaseFormat ==
    \A j \in 1..Len(jobs) :
        Computed(jobs[j]) =>
            /\ IsBaseOf(jobs[j].base_format, jobs[j].output_format.s)
            /\ jobs[j].extension =
                  IF jobs[j].base_format \in DOMAIN FORMAT_EXTENSIONS
                  THEN FORMAT_EXTENSIONS[jobs[j].base_format]
                  ELSE "." \o jobs[j].base_format
            /\ \A k \in 1..Len(jobs) :
                  Computed(jobs[k]) =>
                      /\ AppendsModifiers(jobs[k].output_format.s,
                                          jobs[j].output_format.s)
                            => jobs[k].extension = jobs[j].extension
                      /\ jobs[k].output_format.s = jobs[j].base_format
                            => jobs[k].base_format = jobs[k].output_format.s

\* two children resolved .md, one for markdown and one for markdown with a
\* modifier appended
C7_Witness ==
    /\ Len(jobs) = 2
    /\ Computed(jobs[1]) /\ Computed(jobs[2])
    /\ jobs[1].output_format.s = "markdown"
    /\ AppendsModifiers(jobs[2].output_format.s, jobs[1].output_format.s)
    /\ jobs[2].extension = ".md"

DestinationBesideSource(job) ==
    /\ PathParent(job.output_path) = PathParent(job.input_path)
    /\ PathStem(job.output_path) = PathStem(job.input_path)
    /\ PathSuffix(job.output_path) = job.extension

\* C8 (as amended): when the base format holds no ".", the destination path
\* computed for the converter is in the source's directory, has the source's
\* stem and has the resolved extension as its extension.
C8_DestinationDiffersOnlyInExtension ==
    \A j \in 1..Len(jobs) :
        (jobs[j].output_path # Unbound /\ ~Contains(jobs[j].base_format, {"."}))
            => DestinationBesideSource(jobs[j])

\* C8 as stated: for every profile.
C8_AsStated ==
    \A j \in 1..Len(jobs) :
        jobs[j].output_path # Unbound => DestinationBesideSource(jobs[j])

\* to: revealjs on /d/notes.md gave /d/notes.html
C8_Witness ==
    \E j \in 1..Len(jobs) :
        /\ jobs[j].output_format = PyStr("revealjs")
        /\ jobs[j].input_path = "/d/notes.md"
        /\ jobs[j].output_path = "/d/notes.html"

\* C9: no two children whose converter is running write the same
\* destination file.
C9_NoSharedDestination ==
    \A i \in 1..Len(jobs) : \A j \in 1..Len(jobs) :
        (i # j /\ jobs[i].pc = "converting" /\ jobs[j].pc = "converting")
            => jobs[i].output_path # jobs[j].output_path

\* C10: the converter never runs with its output path equal to its input
\* path.
C10_NeverOverwritesSource ==
    \A j \in 1..Len(jobs) :
        jobs[j].pc = "converting" => jobs[j].output_path # jobs[j].input_path

====
